---- MODULE Spec2Model ----
(***************************************************************************)
(* Campaign send pipeline of the email-campaign backend: the campaign      *)
(* status machine (send, pause, schedule, cancel, scheduler tick, CSV      *)
(* import), the background send pass (process_campaign_send) with the      *)
(* delivery gateway's batch loop and progress callback, the retry          *)
(* classifier, and the unsubscribe / bounce suppression paths.             *)
(*                                                                         *)
(* One campaign is modelled.  A recipient row is identified by its email   *)
(* (unique per campaign).  Strings the code inspects character by          *)
(* character are sequences of one-character strings.                       *)
(*                                                                         *)
(* Scheduling: the service is a single asyncio event loop.  A coroutine    *)
(* runs without interruption until it really suspends; the supabase        *)
(* client calls are synchronous, so a send pass only yields inside         *)
(* send_batch (the pacing sleep before every provider call).  Every        *)
(* action below is one such uninterrupted stretch.                         *)
(*                                                                         *)
(* Fault model: a persistence call raised by the progress callback, by     *)
(* the recording of a result or by the final campaign update may fail; at  *)
(* most one persistence call fails in one pass, so the write made by the   *)
(* outer exception handler succeeds.                                       *)
(***************************************************************************)
EXTENDS Integers, Sequences, FiniteSets, TLC

\* ---- bounds ------------------------------------------------------------
MaxRecipients == 2
MaxPasses == 2
MaxTime == 1
MaxBatchSize == 2
MaxRetries == 3
MaxLinks == 2
MaxParts == 3
MaxRequests == 2
MaxWindow == 2

\* ---- program constants -------------------------------------------------
EmailMaxRetryAttempts == 3
BounceMinSample == 100
BounceThresholdPct == 5

Emails == 1..MaxRecipients
Times == 0..MaxTime
NoTime == -1

\* ---- strings -----------------------------------------------------------
\* str.lower() on ASCII text
UpperLetters ==
  <<"A","B","C","D","E","F","G","H","I","J","K","L","M",
    "N","O","P","Q","R","S","T","U","V","W","X","Y","Z">>

LowerLetters ==
  <<"a","b","c","d","e","f","g","h","i","j","k","l","m",
    "n","o","p","q","r","s","t","u","v","w","x","y","z">>

LowerChar(c) ==
  IF \E i \in 1..Len(UpperLetters) : UpperLetters[i] = c
  THEN LowerLetters[CHOOSE i \in 1..Len(UpperLetters) : UpperLetters[i] = c]
  ELSE c

Lower(s) == [i \in 1..Len(s) |-> LowerChar(s[i])]

\* Python's  sub in s  on strings
Contains(s, sub) ==
  \E i \in 1..(Len(s) - Len(sub) + 1) : SubSeq(s, i, i + Len(sub) - 1) = sub

permanent_errors_with_timeout ==
  << <<"i","n","v","a","l","i","d"," ","e","m","a","i","l">>,
     <<"t","i","m","e","o","u","t">> >>

permanent_errors ==
  << <<"i","n","v","a","l","i","d"," ","e","m","a","i","l">>,
     <<"e","m","a","i","l"," ","a","d","d","r","e","s","s"," ","i","s"," ","i","n","v","a","l","i","d">>,
     <<"d","o","m","a","i","n"," ","n","o","t"," ","f","o","u","n","d">>,
     <<"d","o","m","a","i","n"," ","d","o","e","s"," ","n","o","t"," ","e","x","i","s","t">>,
     <<"u","s","e","r"," ","n","o","t"," ","f","o","u","n","d">>,
     <<"m","a","i","l","b","o","x"," ","n","o","t"," ","f","o","u","n","d">>,
     <<"r","e","c","i","p","i","e","n","t"," ","a","d","d","r","e","s","s"," ","r","e","j","e","c","t","e","d">>,
     <<"a","d","d","r","e","s","s"," ","r","e","j","e","c","t","e","d">>,
     <<"d","o","e","s"," ","n","o","t"," ","e","x","i","s","t">>,
     <<"u","n","d","e","l","i","v","e","r","a","b","l","e">>,
     <<"p","e","r","m","a","n","e","n","t"," ","f","a","i","l","u","r","e">> >>

temporary_errors ==
  << <<"t","i","m","e","o","u","t">>,
     <<"t","e","m","p","o","r","a","r","y">>,
     <<"t","r","y"," ","a","g","a","i","n">>,
     <<"r","a","t","e"," ","l","i","m","i","t">>,
     <<"m","a","i","l","b","o","x"," ","f","u","l","l">>,
     <<"q","u","o","t","a"," ","e","x","c","e","e","d","e","d">>,
     <<"s","e","r","v","i","c","e"," ","u","n","a","v","a","i","l","a","b","l","e">>,
     <<"c","o","n","n","e","c","t","i","o","n">>,
     <<"n","e","t","w","o","r","k">> >>

MsgMailboxNotFound == <<"M","a","i","l","b","o","x"," ","n","o","t"," ","f","o","u","n","d">>

MsgTimeout == <<"C","o","n","n","e","c","t","i","o","n"," ","T","i","m","e","o","u","t">>

MsgUnknown == <<"U","n","k","n","o","w","n"," ","e","r","r","o","r">>

\* ---- retry classifier (tasks.py should_retry_email) --------------------
should_retry_email_always(error_message, retry_count, max_retries) ==
  retry_count < max_retries

should_retry_email(error_message, retry_count, max_retries) ==
  IF retry_count >= max_retries THEN FALSE
  ELSE LET error_lower == Lower(error_message) IN
       IF \E k \in 1..Len(permanent_errors) : Contains(error_lower, permanent_errors[k])
       THEN FALSE
       ELSE IF \E k \in 1..Len(temporary_errors) : Contains(error_lower, temporary_errors[k])
            THEN TRUE
            ELSE TRUE

\* ---- state -------------------------------------------------------------
VARIABLES
  settings,          \* email_batch_size, email_max_retry_attempts
  campaign,          \* the campaigns row
  recipients,        \* the recipients rows of the campaign, by email
  unsubscribe_list,  \* emails with a global row in unsubscribe_list
  suppression_list,  \* emails with a global row in suppression_list
  passes,            \* the send passes launched so far, in launch order
  now,               \* the clock
  delivered,         \* per email, provider calls that succeeded so far
  email_logs,        \* number of rows of the email_logs table
  opened_at,         \* per email, whether the recipient row has opened_at
  opened_count,      \* the campaign's opened_count
  limiter,           \* the InMemoryRateLimiter singleton
  calc               \* the call of a pure function under study: its
                     \* name, its arguments and, once made, its result

vars == << settings, campaign, recipients, unsubscribe_list, suppression_list,
           passes, now, delivered, email_logs, opened_at, opened_count,
           calc,
           limiter >>

\* the event loop is free: no pass is between its last provider call and
\* the end of its results loop (that stretch runs without suspending)
Idle == \A p \in 1..Len(passes) : passes[p].pc # "recording"

RetrySettings == {EmailMaxRetryAttempts}

\* what a provider call can return (send_email never raises)
ProviderErrors == { MsgMailboxNotFound, MsgTimeout }

ProviderResults ==
  { [success |-> TRUE, error |-> << >>] } \cup
  [success : {FALSE}, error : ProviderErrors]

\* should_retry_email on the arguments a pass can give it, computed once
RetryDecision ==
  [m \in ProviderErrors |->
    [r \in 0..(MaxPasses + 1) |->
      [x \in 1..EmailMaxRetryAttempts |-> should_retry_email(m, r, x)]]]

NoCall == [fn |-> "none"]

\* A recipient row: its status and retry_count; error_attempt is the
\* attempt number its error_message starts with (0: none); of its metadata,
\* retry_backoff is the number of minutes the retry_scheduled_at hint
\* lies after the clock of the write (0: no hint) and tags whether the
\* tags key is present.
NoRecipient ==
  [status |-> "none", retry_count |-> 0, error_attempt |-> 0,
   retry_backoff |-> 0, tags |-> FALSE]

\* endpoints.py lines 638-644: a row inserted by the import
NewRecipient == [NoRecipient EXCEPT !.status = "pending"]

Suppressed(e) == e \in unsubscribe_list \/ e \in suppression_list

\* rows as the select returns them: ascending by email
RECURSIVE SortedSeq(_)
SortedSeq(S) ==
  IF S = {} THEN << >>
  ELSE LET m == CHOOSE x \in S : \A y \in S : x <= y
       IN << m >> \o SortedSeq(S \ {m})

\* ---- rate_limiter.py InMemoryRateLimiter ---------------------------------
\* Identifiers are "client:path"; the path fixes max_requests and
\* window_seconds (lines 169-191, 241-252).  Times are seconds of the clock.
AbuseThreshold == 10
AbuseBlockSeconds == 3600

LimiterIds == {"k:/a", "k:/b"}

get_rate_limit_config(identifier) ==
  IF identifier = "k:/a"
  THEN [max_requests |-> 1, window_seconds |-> 1]
  ELSE [max_requests |-> MaxRequests, window_seconds |-> MaxWindow]

\* lines 46-49, and the times of the allowed requests of each identifier
NewLimiter ==
  [requests |-> [id \in LimiterIds |-> << >>],
   blocked_ips |-> [id \in LimiterIds |-> NoTime],
   abuse_scores |-> [id \in LimiterIds |-> 0],
   allowed |-> [id \in LimiterIds |-> [t \in Times |-> 0]]]

\* the stores and the clock before the first request
InitStores ==
  /\ campaign \in [status : {"draft"}, total_recipients : {0},
                  sent_count : {0}, failed_count : {0},
                  scheduled_at : {NoTime}, started_at : {NoTime},
                  completed_at : {NoTime},
                  webhooks : BOOLEAN]
  /\ recipients = [e \in Emails |-> NoRecipient]
  /\ unsubscribe_list = {}
  /\ suppression_list = {}
  /\ passes = << >>
  /\ now = 0
  /\ delivered = [e \in Emails |-> 0]
  /\ email_logs = 0
  /\ opened_at = [e \in Emails |-> FALSE]
  /\ opened_count = 0
  /\ limiter = NewLimiter

InitSystem ==
  /\ settings \in [email_batch_size : 1..MaxBatchSize,
                   email_max_retry_attempts : RetrySettings]
  /\ InitStores

\* the service at rest: no call under study
Init ==
  /\ InitSystem
  /\ calc = NoCall

NewPass(test_mode, test_emails) ==
  [pc |-> "queued", test_mode |-> test_mode, test_emails |-> test_emails,
   n_targets |-> 0, skipped |-> {}, messages |-> << >>, results |-> << >>,
   sent_count |-> 0, sent_before |-> 0, failed_before |-> 0,
   exit |-> "running"]

\* ---- endpoints.py import_csv -------------------------------------------
\* the HTTP status of the request
import_csv_code(c, rows) ==
  IF c.status \notin {"draft", "scheduled"} THEN 400
  ELSE IF \E e \in rows \ unsubscribe_list : recipients[e].status # "none"
  THEN 500     \* the bulk insert violates the (campaign, email) key
  ELSE 200

ImportCsv(rows) ==
  /\ UNCHANGED << email_logs, opened_at, opened_count, calc, limiter >>
  /\ Idle
  /\ UNCHANGED << settings, unsubscribe_list, suppression_list, passes, now,
                  delivered >>
  /\ IF import_csv_code(campaign, rows) # 200
     THEN UNCHANGED << campaign, recipients >>
     ELSE LET valid == rows \ unsubscribe_list IN
          /\ recipients' = [e \in Emails |->
                IF e \in valid
                THEN NewRecipient
                ELSE recipients[e]]
          /\ campaign' = [campaign EXCEPT
                !.total_recipients = IF valid = {} THEN @
                                     ELSE Cardinality(valid)]

\* ---- endpoints.py send_campaign ----------------------------------------
send_campaign_code_no_status_check(c) ==
  IF c.total_recipients = 0 THEN 400 ELSE 202

send_campaign_code(c) ==
  IF c.status \notin {"draft", "scheduled", "paused"} THEN 400
  ELSE IF c.total_recipients = 0 THEN 400
  ELSE 202

\* send_campaign with a check that no earlier pass is still running
SendCampaign_exclusive(test_mode, test_emails) ==
  /\ UNCHANGED << email_logs, opened_at, opened_count, calc, limiter >>
  /\ Idle
  /\ UNCHANGED << settings, recipients, unsubscribe_list, suppression_list,
                  now, delivered >>
  /\ IF \/ send_campaign_code(campaign) # 202
        \/ \E p \in 1..Len(passes) : passes[p].pc # "done"
     THEN UNCHANGED << campaign, passes >>
     ELSE /\ Len(passes) < MaxPasses
          /\ campaign' = [campaign EXCEPT !.status = "sending",
                                            !.started_at = now]
          /\ passes' = Append(passes, NewPass(test_mode, test_emails))

SendCampaign(test_mode, test_emails) ==
  /\ UNCHANGED << email_logs, opened_at, opened_count, calc, limiter >>
  /\ Idle
  /\ UNCHANGED << settings, recipients, unsubscribe_list, suppression_list,
                  now, delivered >>
  /\ IF send_campaign_code(campaign) # 202
     THEN UNCHANGED << campaign, passes >>
     ELSE /\ Len(passes) < MaxPasses
          /\ campaign' = [campaign EXCEPT !.status = "sending",
                                            !.started_at = now]
          /\ passes' = Append(passes, NewPass(test_mode, test_emails))

\* ---- endpoints.py pause_campaign ---------------------------------------
pause_campaign_code_any_status(c) == 200

pause_campaign_code(c) == IF c.status = "sending" THEN 200 ELSE 400

PauseCampaign ==
  /\ UNCHANGED << email_logs, opened_at, opened_count, calc, limiter >>
  /\ Idle
  /\ UNCHANGED << settings, recipients, unsubscribe_list, suppression_list,
                  passes, now, delivered >>
  /\ IF pause_campaign_code(campaign) = 200
     THEN campaign' = [campaign EXCEPT !.status = "paused"]
     ELSE UNCHANGED campaign

\* ---- scheduler.py schedule_campaign (the conditional update) -----------
do_schedule(c, scheduled_at) ==
  IF c.status \in {"draft", "paused"}
  THEN [c EXCEPT !.status = "scheduled", !.scheduled_at = scheduled_at]
  ELSE c

\* ---- endpoints.py schedule_campaign, schemas.py validate_scheduled_at --
schedule_campaign_code_no_time_check(c, scheduled_at) ==
  IF c.status \notin {"draft", "paused"} THEN 400
  ELSE IF c.total_recipients = 0 THEN 400
  ELSE 200

schedule_campaign_code(c, scheduled_at) ==
  IF scheduled_at <= now THEN 422
  ELSE IF c.status \notin {"draft", "paused"} THEN 400
  ELSE IF c.total_recipients = 0 THEN 400
  ELSE 200

ScheduleCampaign(scheduled_at) ==
  /\ UNCHANGED << email_logs, opened_at, opened_count, calc, limiter >>
  /\ Idle
  /\ UNCHANGED << settings, recipients, unsubscribe_list, suppression_list,
                  passes, now, delivered >>
  /\ IF schedule_campaign_code(campaign, scheduled_at) = 200
     THEN campaign' = do_schedule(campaign, scheduled_at)
     ELSE UNCHANGED campaign

\* ---- endpoints.py / scheduler.py cancel_scheduled_campaign -------------
cancel_scheduled_campaign_code(c) == IF c.status # "scheduled" THEN 400 ELSE 200

CancelScheduledCampaign ==
  /\ UNCHANGED << email_logs, opened_at, opened_count, calc, limiter >>
  /\ Idle
  /\ UNCHANGED << settings, recipients, unsubscribe_list, suppression_list,
                  passes, now, delivered >>
  /\ IF cancel_scheduled_campaign_code(campaign) = 200
     THEN campaign' = [campaign EXCEPT !.status = "draft",
                                       !.scheduled_at = NoTime]
     ELSE UNCHANGED campaign

\* ---- scheduler.py check_scheduled_campaigns ----------------------------
\* ---- endpoints.py update_campaign --------------------------------------
\* lines 107-128: the fields of the request body are written by id; the
\* status is validated against the list of names only.
UpdateCampaign(status, scheduled_at) ==
  /\ UNCHANGED << email_logs, opened_at, opened_count, calc, limiter >>
  /\ Idle
  /\ UNCHANGED << settings, recipients, unsubscribe_list, suppression_list,
                  passes, now, delivered >>
  /\ campaign' = [campaign EXCEPT !.status = status,
                                  !.scheduled_at = scheduled_at]

\* the tick without the scheduled_at <= now filter
CheckScheduledCampaigns_any_time ==
  /\ UNCHANGED << email_logs, opened_at, opened_count, calc, limiter >>
  /\ Idle
  /\ campaign.status = "scheduled"
  /\ UNCHANGED << settings, recipients, unsubscribe_list, suppression_list,
                  now, delivered >>
  /\ IF campaign.total_recipients = 0
     THEN /\ campaign' = [campaign EXCEPT !.status = "failed"]
          /\ UNCHANGED passes
     ELSE /\ Len(passes) < MaxPasses
          /\ campaign' = [campaign EXCEPT !.status = "sending",
                                            !.started_at = now]
          /\ passes' = Append(passes, NewPass(FALSE, {}))

CheckScheduledCampaigns ==
  /\ UNCHANGED << email_logs, opened_at, opened_count, calc, limiter >>
  /\ Idle
  /\ campaign.status = "scheduled"
  /\ campaign.scheduled_at <= now
  /\ UNCHANGED << settings, recipients, unsubscribe_list, suppression_list,
                  now, delivered >>
  /\ IF campaign.total_recipients = 0
     THEN /\ campaign' = [campaign EXCEPT !.status = "failed"]
          /\ UNCHANGED passes
     ELSE /\ Len(passes) < MaxPasses
          /\ campaign' = [campaign EXCEPT !.status = "sending",
                                            !.started_at = now]
          /\ passes' = Append(passes, NewPass(FALSE, {}))

\* the clock
AdvanceTime ==
  /\ UNCHANGED << email_logs, opened_at, opened_count, calc, limiter >>
  /\ Idle
  /\ now < MaxTime
  /\ now' = now + 1
  /\ UNCHANGED << settings, campaign, recipients, unsubscribe_list,
                  suppression_list, passes, delivered >>

\* ---- tasks.py process_campaign_send ------------------------------------
\* lines 115-133: the rows the pass selects
Targets(ps) ==
  IF ps.test_mode /\ ps.test_emails # {}
  THEN { e \in Emails : recipients[e].status # "none" /\ e \in ps.test_emails }
  ELSE { e \in Emails : recipients[e].status = "pending" }

\* lines 268-283: the row after the update that requeues it; recipient is
\* the row as the pass loaded it, whose metadata the update writes back
\* with the hint added
retry_update(row, recipient, retry_count) ==
  [row EXCEPT !.status = "pending",
              !.error_attempt = retry_count,
              !.retry_count = retry_count,
              !.retry_backoff = 2 ^ (retry_count - 1),
              !.tags = recipient.tags]

\* lines 231-313: the results loop.  k is the next result, fault the
\* result whose recipient update raises (0: none).  With webhooks enabled
\* the notify_email_sent / notify_email_failed calls pass a keyword
\* (webhook_config) the service's methods do not take and raise TypeError.
RECURSIVE RecordResults(_, _, _, _, _, _)
RecordResults(recs, failed_count, logged, ps, k, fault) ==
  IF k > Len(ps.results)
  THEN [recipients |-> recs, failed_count |-> failed_count,
        logged |-> logged, raised |-> FALSE]
  ELSE
    LET result == ps.results[k]
        recipient == ps.messages[k]
        e == recipient.email
    IN
    IF result.success
    THEN IF fault = k
         THEN [recipients |-> recs, failed_count |-> failed_count,
               logged |-> logged, raised |-> TRUE]
         ELSE LET recs2 == [recs EXCEPT ![e].status = "sent"] IN
              IF campaign.webhooks
              THEN [recipients |-> recs2, failed_count |-> failed_count,
                    logged |-> logged + 1, raised |-> TRUE]
              ELSE RecordResults(recs2, failed_count, logged + 1, ps, k + 1, fault)
    ELSE
      LET retry_count == recipient.retry_count + 1
          max_retries == settings.email_max_retry_attempts
          should_retry == RetryDecision[result.error][retry_count][max_retries]
          recs2 == [recs EXCEPT ![e] =
                      IF should_retry
                      THEN retry_update(recs[e], recipient, retry_count)
                      ELSE [recs[e] EXCEPT !.status = "failed",
                                           !.error_attempt = 0,
                                           !.retry_count = retry_count]]
      IN
      IF fault = k
      THEN [recipients |-> recs, failed_count |-> failed_count + 1,
            logged |-> logged, raised |-> TRUE]
      ELSE IF ~should_retry /\ campaign.webhooks
      THEN [recipients |-> recs2, failed_count |-> failed_count + 1,
            logged |-> logged + 1, raised |-> TRUE]
      ELSE RecordResults(recs2, failed_count + 1, logged + 1, ps, k + 1, fault)

\* lines 338-344: the outer handler
HandleException_no_update(c) == c

HandleException(c) == [c EXCEPT !.status = "failed"]

\* lines 137-142: the update made when no row was selected
MarkCompleted_no_completed_at(c) == [c EXCEPT !.status = "completed"]

MarkCompleted(c) == [c EXCEPT !.status = "completed", !.completed_at = now]

\* lines 214-222: on_progress(current, total) stores the number of
\* results so far as sent_count; the pass's own failed_count is still 0
\* while send_batch runs
on_progress(c, current) ==
  [c EXCEPT !.sent_count = current, !.failed_count = 0]

\* a pass that has returned keeps nothing but how it ended
Ended(ps, exit) ==
  [ps EXCEPT !.pc = "done", !.exit = exit, !.test_mode = FALSE,
             !.test_emails = {}, !.n_targets = 0, !.skipped = {},
             !.messages = << >>,
             !.results = << >>, !.sent_count = 0,
             !.sent_before = 0, !.failed_before = 0]

\* lines 100-208: the task starts, loads the campaign and its target rows
\* and renders one message per row; render_fails are the emails whose
\* template rendering raises (logged, skipped).  With no message left,
\* send_batch([]) returns at once and the pass goes on to its results
\* loop without suspending.
PassLoad(p, render_fails) ==
  /\ UNCHANGED << opened_at, opened_count, calc, limiter >>
  /\ Idle
  /\ p \in 1..Len(passes)
  /\ passes[p].pc = "queued"
  /\ UNCHANGED << settings, recipients, unsubscribe_list, suppression_list,
                  now, delivered >>
  /\ LET ps0 == passes[p]
         targets == Targets(ps0)
     IN
     IF targets = {}
     THEN /\ campaign' = MarkCompleted(campaign)
          /\ passes' = [passes EXCEPT ![p] = Ended(ps0, "empty")]
          /\ UNCHANGED email_logs
     ELSE LET rows == SortedSeq(targets \ render_fails) IN
          /\ email_logs' = email_logs + Cardinality(targets \cap render_fails)
          /\ passes' = [passes EXCEPT ![p] =
               [ps0 EXCEPT
                  !.pc = IF rows = << >> THEN "recording" ELSE "sending",
                  !.test_emails = {},
                  !.n_targets = Cardinality(targets),
                  !.skipped = targets \cap render_fails,
                  !.messages = [i \in 1..Len(rows) |->
                     [email |-> rows[i],
                      retry_count |-> recipients[rows[i]].retry_count,
                      tags |-> recipients[rows[i]].tags]],
                  !.sent_before = campaign.sent_count,
                  !.failed_before = campaign.failed_count]]
          /\ UNCHANGED campaign

\* email_service.py send_batch, one turn of the inner loop: the pacing
\* sleep, then the provider call and, at the end of a chunk, the progress
\* callback (whose update may raise: fault).  After the last message the
\* pass goes on to its results loop without suspending.
PassSendOne(p, result, fault) ==
  /\ UNCHANGED << email_logs, opened_at, opened_count, calc, limiter >>
  /\ Idle
  /\ p \in 1..Len(passes)
  /\ passes[p].pc = "sending"
  /\ UNCHANGED << settings, recipients, unsubscribe_list, suppression_list,
                  now >>
  /\ LET ps0 == passes[p]
         i == Len(ps0.results) + 1
         total == Len(ps0.messages)
         to_email == ps0.messages[i].email
         chunk_end == (i % settings.email_batch_size = 0) \/ i = total
         ps1 == [ps0 EXCEPT !.results = Append(ps0.results, result)]
     IN
     /\ delivered' = [delivered EXCEPT ![to_email] =
                        IF result.success THEN @ + 1 ELSE @]
     /\ IF ~chunk_end
        THEN /\ ~fault
             /\ passes' = [passes EXCEPT ![p] = ps1]
             /\ UNCHANGED campaign
        ELSE IF fault
             THEN /\ campaign' = HandleException(campaign)
                  /\ passes' = [passes EXCEPT ![p] = Ended(ps1, "exception")]
             ELSE /\ campaign' = on_progress(campaign, i)
                  /\ passes' = [passes EXCEPT ![p] =
                       [ps1 EXCEPT !.sent_count = i,
                                   !.pc = IF i = total THEN "recording"
                                          ELSE "sending"]]

\* lines 230-344: the results loop and the final update, or the outer
\* handler.  fault: 0 none, k in 1..n the update of result k raises,
\* n+1 the final update raises.  notify_campaign_completed raises
\* TypeError like the other webhook calls.
PassFinish(p, fault) ==
  /\ UNCHANGED << opened_at, opened_count, calc, limiter >>
  /\ p \in 1..Len(passes)
  /\ passes[p].pc = "recording"
  /\ UNCHANGED << settings, unsubscribe_list, suppression_list, now, delivered >>
  /\ fault \in 0..(Len(passes[p].results) + 1)
  /\ LET ps == passes[p]
         rec == RecordResults(recipients, 0, 0, ps, 1, fault)
     IN
     /\ recipients' = rec.recipients
     /\ email_logs' = email_logs + rec.logged
     /\ IF rec.raised \/ campaign.webhooks \/ fault = Len(ps.results) + 1
        THEN /\ campaign' = HandleException(campaign)
             /\ passes' = [passes EXCEPT ![p] = Ended(ps, "exception")]
        ELSE /\ campaign' = [campaign EXCEPT
                               !.status = "completed",
                               !.completed_at = now,
                               !.sent_count = ps.sent_count,
                               !.failed_count = rec.failed_count]
             /\ passes' = [passes EXCEPT ![p] = Ended(ps, "completed")]

\* ---- endpoints.py unsubscribe ------------------------------------------
Unsubscribe(email) ==
  /\ UNCHANGED << email_logs, opened_at, opened_count, calc, limiter >>
  /\ Idle
  /\ UNCHANGED << settings, campaign, suppression_list, passes, now, delivered >>
  /\ IF email \in unsubscribe_list
     THEN UNCHANGED << unsubscribe_list, recipients >>
     ELSE /\ unsubscribe_list' = unsubscribe_list \cup {email}
          /\ recipients' = [e \in Emails |->
                IF e = email /\ recipients[e].status \in {"pending", "sending"}
                THEN [recipients[e] EXCEPT !.status = "unsubscribed"]
                ELSE recipients[e]]

\* ---- bounce_handler.py BounceHandler.process_bounce --------------------
\* the provider reports a bounce for a message it accepted
ProcessBounce(email, bounce_type) ==
  /\ UNCHANGED << email_logs, opened_at, opened_count, calc, limiter >>
  /\ Idle
  /\ delivered[email] > 0
  /\ recipients[email].status # "none"
  /\ UNCHANGED << settings, unsubscribe_list, passes, now, delivered >>
  /\ recipients' = [recipients EXCEPT ![email].status = "bounced"]
  /\ suppression_list' = IF bounce_type \in {"hard", "complaint"}
                         THEN suppression_list \cup {email}
                         ELSE suppression_list
  /\ campaign' =
       IF /\ campaign.sent_count >= BounceMinSample
          /\ campaign.failed_count * 100 >= BounceThresholdPct * campaign.sent_count
          /\ campaign.status = "sending"
       THEN [campaign EXCEPT !.status = "paused"]
       ELSE campaign

\* ---- the system --------------------------------------------------------
SendRequests ==
  { [test_mode |-> FALSE, test_emails |-> {}] } \cup
  [test_mode : {TRUE}, test_emails : SUBSET Emails]

Passes == 1..MaxPasses

Next ==
  \/ \E rows \in SUBSET Emails : ImportCsv(rows)
  \/ \E req \in SendRequests : SendCampaign(req.test_mode, req.test_emails)
  \/ PauseCampaign
  \/ \E scheduled_at \in Times : ScheduleCampaign(scheduled_at)
  \/ CancelScheduledCampaign
  \/ CheckScheduledCampaigns
  \/ AdvanceTime
  \/ \E p \in Passes, render_fails \in SUBSET Emails : PassLoad(p, render_fails)
  \/ \E p \in Passes, result \in ProviderResults, fault \in BOOLEAN :
        PassSendOne(p, result, fault)
  \/ \E p \in Passes, fault \in 0..(MaxRecipients + 1) : PassFinish(p, fault)

Spec == Init /\ [][Next]_vars

\* The request endpoints and the scheduler against passes whose provider
\* calls succeed and whose persistence calls do not fail; uploads are the
\* empty list or the whole list, requests normal or a test of every address.
Delivered == [success |-> TRUE, error |-> << >>]

ApiUploads == { {}, Emails }

ApiRequests ==
  { [test_mode |-> FALSE, test_emails |-> {}],
    [test_mode |-> TRUE, test_emails |-> Emails] }

InitApi == Init /\ settings.email_batch_size = MaxBatchSize

NextApi ==
  \/ \E rows \in ApiUploads : ImportCsv(rows)
  \/ \E req \in ApiRequests : SendCampaign(req.test_mode, req.test_emails)
  \/ PauseCampaign
  \/ \E scheduled_at \in Times : ScheduleCampaign(scheduled_at)
  \/ CancelScheduledCampaign
  \/ CheckScheduledCampaigns
  \/ AdvanceTime
  \/ \E p \in Passes : PassLoad(p, {})
  \/ \E p \in Passes : PassSendOne(p, Delivered, FALSE)
  \/ \E p \in Passes : PassFinish(p, 0)

SpecApi == InitApi /\ [][NextApi]_vars

\* Normal-mode passes over one upload of the whole list, started, paused
\* and resumed through the API; provider calls succeed or time out.
CalmResults ==
  { [success |-> TRUE, error |-> << >>],
    [success |-> FALSE, error |-> MsgTimeout] }

PassStep ==
  \/ \E p \in Passes : PassLoad(p, {})
  \/ \E p \in Passes, result \in CalmResults, fault \in BOOLEAN :
        PassSendOne(p, result, fault)
  \/ \E p \in Passes, fault \in 0..(MaxRecipients + 1) : PassFinish(p, fault)

NextPass ==
  \/ ImportCsv(Emails)
  \/ SendCampaign(FALSE, {})
  \/ PauseCampaign
  \/ PassStep

SpecPass == Init /\ [][NextPass]_vars

\* One pass at a time (no pause, so no second start) in its whole
\* environment: any upload, any request, render failures, every provider
\* answer, a persistence fault at any write.  The event loop resumes a
\* task whose sleep or provider call has returned (provider calls carry a
\* timeout), so a pass that can take a step eventually takes one.
AnyPassStep ==
  \/ \E p \in Passes, render_fails \in SUBSET Emails : PassLoad(p, render_fails)
  \/ \E p \in Passes, result \in ProviderResults, fault \in BOOLEAN :
        PassSendOne(p, result, fault)
  \/ \E p \in Passes, fault \in 0..(MaxRecipients + 1) : PassFinish(p, fault)

NextOnePass ==
  \/ \E rows \in SUBSET Emails : ImportCsv(rows)
  \/ \E req \in SendRequests : SendCampaign(req.test_mode, req.test_emails)
  \/ AnyPassStep

FairPass == Init /\ [][NextOnePass]_vars /\ WF_vars(AnyPassStep)

\* The scheduler tick beside the schedule endpoints, the clock, uploads,
\* edits of status and scheduled_at through update_campaign, and passes
\* whose deliveries succeed.
NextScheduler ==
  \/ \E rows \in ApiUploads : ImportCsv(rows)
  \/ \E scheduled_at \in Times : UpdateCampaign("scheduled", scheduled_at)
  \/ \E scheduled_at \in Times : ScheduleCampaign(scheduled_at)
  \/ CancelScheduledCampaign
  \/ CheckScheduledCampaigns
  \/ AdvanceTime
  \/ \E p \in Passes : PassLoad(p, {})
  \/ \E p \in Passes : PassSendOne(p, Delivered, FALSE)
  \/ \E p \in Passes : PassFinish(p, 0)

SpecScheduler == InitApi /\ [][NextScheduler]_vars

\* Passes under every setting of email_max_retry_attempts from 1 to the
\* default: one upload of the whole list, normal and test requests, pause
\* and resume, every provider answer, no persistence fault, no webhooks.
InitConfigured ==
  /\ settings \in [email_batch_size : {MaxBatchSize},
                   email_max_retry_attempts : 1..EmailMaxRetryAttempts]
  /\ InitStores
  /\ ~campaign.webhooks
  /\ calc = NoCall

NextConfigured ==
  \/ ImportCsv(Emails)
  \/ \E req \in ApiRequests : SendCampaign(req.test_mode, req.test_emails)
  \/ PauseCampaign
  \/ \E p \in Passes : PassLoad(p, {})
  \/ \E p \in Passes, result \in ProviderResults : PassSendOne(p, result, FALSE)
  \/ \E p \in Passes : PassFinish(p, 0)

SpecConfigured == InitConfigured /\ [][NextConfigured]_vars

\* One pass at a time in its whole environment, with unsubscribe requests
\* arriving before and while it runs.
NextTargets ==
  \/ \E rows \in SUBSET Emails : ImportCsv(rows)
  \/ \E req \in SendRequests : SendCampaign(req.test_mode, req.test_emails)
  \/ \E email \in Emails : Unsubscribe(email)
  \/ AnyPassStep

SpecTargets == Init /\ [][NextTargets]_vars

\* Send passes against unsubscribe requests and bounce reports.
NextSuppress ==
  \/ \E rows \in SUBSET Emails : ImportCsv(rows)
  \/ \E req \in SendRequests : SendCampaign(req.test_mode, req.test_emails)
  \/ PauseCampaign
  \/ \E p \in Passes : PassLoad(p, {})
  \/ \E p \in Passes, result \in CalmResults : PassSendOne(p, result, FALSE)
  \/ \E p \in Passes : PassFinish(p, 0)
  \/ \E email \in Emails : Unsubscribe(email)
  \/ \E email \in Emails, bounce_type \in {"hard", "soft"} :
        ProcessBounce(email, bounce_type)

SpecSuppress == InitApi /\ [][NextSuppress]_vars

\* ---- calls of should_retry_email ----------------------------------------
\* The messages given to the classifier: every keyword of its two lists
\* and two texts with no keyword, alone or two joined by ": ", written in
\* lower case and in capitals, and the three provider messages.
UpperChar(c) ==
  IF \E i \in 1..Len(LowerLetters) : LowerLetters[i] = c
  THEN UpperLetters[CHOOSE i \in 1..Len(LowerLetters) : LowerLetters[i] = c]
  ELSE c

Upper(s) == [i \in 1..Len(s) |-> UpperChar(s[i])]

Join(a, b) == a \o <<":", " ">> \o b

PermanentWords == {permanent_errors[k] : k \in 1..Len(permanent_errors)}

TemporaryWords == {temporary_errors[k] : k \in 1..Len(temporary_errors)}

NeutralWords ==
  { <<"u","n","k","n","o","w","n"," ","e","r","r","o","r">>,
    <<"g","r","e","y","l","i","s","t","e","d",","," ","c","o","d","e"," ","4","5","1">> }

BaseMessages ==
  PermanentWords \cup TemporaryWords \cup NeutralWords
    \cup {Join(a, b) : a \in PermanentWords, b \in TemporaryWords}
    \cup {Join(b, a) : a \in PermanentWords, b \in TemporaryWords}
    \cup {Join(n, w) : n \in NeutralWords, w \in PermanentWords \cup TemporaryWords}

RetryMessages ==
  BaseMessages \cup {Upper(m) : m \in BaseMessages}
    \cup {MsgMailboxNotFound, MsgTimeout, MsgUnknown}

RetryCounts == 0..MaxRetries

RetryCalls ==
  [fn : {"should_retry_email"}, error_message : RetryMessages,
   retry_count : RetryCounts, max_retries : RetryCounts,
   returned : {FALSE}, result : {FALSE}]

\* a caller is about to classify an error
InitRetry ==
  /\ InitSystem
  /\ settings.email_batch_size = MaxBatchSize
  /\ ~campaign.webhooks
  /\ calc \in RetryCalls

\* the call returns
CallShouldRetryEmail ==
  /\ calc.fn = "should_retry_email"
  /\ ~calc.returned
  /\ calc' = [calc EXCEPT
                !.returned = TRUE,
                !.result = should_retry_email(calc.error_message,
                                              calc.retry_count,
                                              calc.max_retries)]
  /\ UNCHANGED << settings, campaign, recipients, unsubscribe_list,
                  suppression_list, passes, now, delivered, email_logs,
                  opened_at, opened_count, limiter >>

NextRetry == CallShouldRetryEmail

SpecRetry == InitRetry /\ [][NextRetry]_vars

\* ---- tracking.py ----------------------------------------------------------
\* Identifiers are rendered as short strings of unreserved characters (a
\* UUID's text is hexadecimal digits and dashes); the 32 hexadecimal
\* digits of the SHA-256 digest are rendered as a string determined by
\* the pair of identifiers and the secret.
api_base_url == <<"h","t","t","p",":","/","/","l","o","c","a","l","h","o","s","t",":","8","0","0","0">>

CampaignIdStr == <<"c","1">>

RecipientIdStr == <<"r","1">>

StartsWith(s, prefix) ==
  Len(s) >= Len(prefix) /\ SubSeq(s, 1, Len(prefix)) = prefix

\* the first position at or after from where sub occurs in s, 0 if none
IndexOf(s, sub, from) ==
  LET hits == {i \in from..(Len(s) - Len(sub) + 1) :
                 SubSeq(s, i, i + Len(sub) - 1) = sub}
  IN IF hits = {} THEN 0 ELSE CHOOSE i \in hits : \A j \in hits : i <= j

\* str.replace(old, new, 1)
ReplaceFirst(s, old, new) ==
  LET i == IndexOf(s, old, 1) IN
  IF i = 0 THEN s
  ELSE SubSeq(s, 1, i - 1) \o new \o SubSeq(s, i + Len(old), Len(s))

RECURSIVE Flatten(_)
Flatten(parts) ==
  IF parts = << >> THEN << >> ELSE Head(parts) \o Flatten(Tail(parts))

\* urllib.parse.quote_plus on one character: letters, digits and _ . - ~
\* are kept, a space becomes +, the others their percent code
UnreservedMarks == {"_", ".", "-", "~", "0", "1", "2", "3", "4", "5", "6", "7", "8", "9"}

QuotePlusChar(c) ==
  IF c \in UnreservedMarks
       \/ (\E i \in 1..Len(LowerLetters) : LowerLetters[i] = c \/ UpperLetters[i] = c)
  THEN << c >>
  ELSE CASE c = " " -> <<"+">>
         [] c = ":" -> <<"%","3","A">>
         [] c = "/" -> <<"%","2","F">>
         [] c = "#" -> <<"%","2","3">>
         [] c = "?" -> <<"%","3","F">>
         [] c = "=" -> <<"%","3","D">>
         [] c = "&" -> <<"%","2","6">>
         [] c = "+" -> <<"%","2","B">>
         [] c = "@" -> <<"%","4","0">>
         [] c = "(" -> <<"%","2","8">>
         [] c = ")" -> <<"%","2","9">>
         [] c = "%" -> <<"%","2","5">>
         [] c = "'" -> <<"%","2","7">>
         [] c = "<" -> <<"%","3","C">>
         [] c = ">" -> <<"%","3","E">>

QuotePlus(s) == Flatten([i \in 1..Len(s) |-> QuotePlusChar(s[i])])

\* lines 19-31
generate_tracking_token(campaign_id, recipient_id) ==
  <<"t">> \o campaign_id \o recipient_id

verify_tracking_token(campaign_id, recipient_id, token) ==
  token = generate_tracking_token(campaign_id, recipient_id)

\* urlencode of the query parameters, in the order of the dict
TrackingQuery(campaign_id, recipient_id) ==
  <<"c","=">> \o QuotePlus(campaign_id) \o <<"&","r","=">> \o QuotePlus(recipient_id)
    \o <<"&","t","=">> \o QuotePlus(generate_tracking_token(campaign_id, recipient_id))

\* lines 34-55
get_tracking_pixel_html(campaign_id, recipient_id) ==
  <<"<","i","m","g"," ","s","r","c","=","\"">>
    \o api_base_url \o <<"/","v","1","/","t","r","a","c","k","/","o","p","e","n","?">>
    \o TrackingQuery(campaign_id, recipient_id)
    \o <<"\""," ","w","i","d","t","h","=","\"","1","\""," ","h","e","i","g","h","t","=","\"","1","\""," ","a","l","t","=","\"","\""," ","s","t","y","l","e","=","\"","d","i","s","p","l","a","y",":","n","o","n","e",";","\""," ","/",">">>

\* lines 58-77
wrap_url_for_tracking(original_url, campaign_id, recipient_id) ==
  api_base_url \o <<"/","v","1","/","t","r","a","c","k","/","c","l","i","c","k","?">>
    \o TrackingQuery(campaign_id, recipient_id)
    \o <<"&","u","=">> \o QuotePlus(original_url)

IsQuote(c) == c = "\"" \/ c = "'"

\* lines 105-118: wrap_link on one match of the pattern
SkipPrefixes ==
  { <<"m","a","i","l","t","o",":">>, <<"t","e","l",":">>, <<"j","a","v","a","s","c","r","i","p","t",":">>, <<"#">> }

wrap_link(full_tag, url, campaign_id, recipient_id) ==
  IF \/ \E prefix \in SkipPrefixes : StartsWith(url, prefix)
     \/ Contains(Lower(url), <<"u","n","s","u","b","s","c","r","i","b","e">>)
     \/ Contains(url, <<"t","r","a","c","k","/","c","l","i","c","k">>)
  THEN full_tag
  ELSE ReplaceFirst(full_tag, url,
                    wrap_url_for_tracking(url, campaign_id, recipient_id))

\* lines 120-125: re.sub of  href=["']([^"']+)["']  from position i on.
\* A match is href=, a quote, the longest run of one or more characters
\* that are not quotes, and a quote.
HrefEq == <<"h","r","e","f","=">>

RECURSIVE sub_href(_, _, _, _)
sub_href(html, i, campaign_id, recipient_id) ==
  IF i > Len(html) THEN << >>
  ELSE
    LET quotes == {j \in (i + 6)..Len(html) : IsQuote(html[j])}
        close == IF quotes = {} THEN 0
                 ELSE CHOOSE j \in quotes : \A k \in quotes : j <= k
        matches == /\ i + 5 <= Len(html)
                   /\ SubSeq(html, i, i + 4) = HrefEq
                   /\ IsQuote(html[i + 5])
                   /\ close > i + 6
    IN
    IF matches
    THEN wrap_link(SubSeq(html, i, close), SubSeq(html, i + 6, close - 1),
                   campaign_id, recipient_id)
           \o sub_href(html, close + 1, campaign_id, recipient_id)
    ELSE << html[i] >> \o sub_href(html, i + 1, campaign_id, recipient_id)

BodyClose == <<"<","/","b","o","d","y",">">>

\* lines 79-144
inject_tracking_into_html(html_content, campaign_id, recipient_id, enable_click_tracking, enable_open_tracking) ==
  LET wrapped == IF enable_click_tracking
                 THEN sub_href(html_content, 1, campaign_id, recipient_id)
                 ELSE html_content
      tracking_pixel == get_tracking_pixel_html(campaign_id, recipient_id)
      at == IndexOf(Lower(wrapped), BodyClose, 1)
  IN
  IF ~enable_open_tracking THEN wrapped
  ELSE IF at > 0
       THEN SubSeq(wrapped, 1, at - 1) \o tracking_pixel
              \o SubSeq(wrapped, at, Len(wrapped))
       ELSE wrapped \o tracking_pixel

\* ---- calls of inject_tracking_into_html --------------------------------
\* The documents: one to MaxLinks anchors, each with one of the URLs below
\* in double or single quotes, with or without a body element around them.
TrackUrls ==
  { <<"m","a","i","l","t","o",":","a","@","b",".","c">>,
    <<"t","e","l",":","+","1">>,
    <<"j","a","v","a","s","c","r","i","p","t",":","v","(",")">>,
    <<"#","a">>,
    <<"/","U","n","s","u","b","s","c","r","i","b","e">>,
    <<"h","t","t","p",":","/","/","x","/","t","r","a","c","k","/","c","l","i","c","k","?","u","=","1">>,
    <<"h","t","t","p","s",":","/","/","e",".","c","o","m","/","p">>,
    <<"/","p","?","a","=","1","&","b","=","2">>,
    <<"r","e","f">>,
    <<"h">> }

Links == [url : TrackUrls, quote : {"\"", "'"}]

LinkSeqs == UNION {[1..n -> Links] : n \in 1..MaxLinks}

AnchorFor(link, url) ==
  <<"<","a"," ","h","r","e","f","=">> \o << link.quote >> \o url \o << link.quote >> \o <<">","x","<","/","a",">">>

BodyOpen == <<"<","b","o","d","y",">">>

BodyCloseUpper == <<"<","/","B","O","D","Y",">">>

HtmlOf(links, body) ==
  LET anchors == Flatten([k \in 1..Len(links) |-> AnchorFor(links[k], links[k].url)])
  IN IF body THEN BodyOpen \o anchors \o BodyCloseUpper ELSE anchors

InjectCalls ==
  [fn : {"inject_tracking_into_html"}, links : LinkSeqs, body : BOOLEAN,
   enable_open_tracking : BOOLEAN, applied : {0},
   once : {<< >>}, twice : {<< >>}]

InitInject ==
  /\ InitSystem
  /\ settings.email_batch_size = MaxBatchSize
  /\ ~campaign.webhooks
  /\ calc \in InjectCalls

\* the template's HTML is given to the injector
CallInject ==
  /\ calc.fn = "inject_tracking_into_html"
  /\ calc.applied = 0
  /\ calc' = [calc EXCEPT
                !.applied = 1,
                !.once = inject_tracking_into_html(
                           HtmlOf(calc.links, calc.body), CampaignIdStr,
                           RecipientIdStr, TRUE, calc.enable_open_tracking)]
  /\ UNCHANGED << settings, campaign, recipients, unsubscribe_list,
                  suppression_list, passes, now, delivered, email_logs,
                  opened_at, opened_count, limiter >>

\* the injector's output is given to the injector again
CallInjectAgain ==
  /\ calc.fn = "inject_tracking_into_html"
  /\ calc.applied = 1
  /\ calc' = [calc EXCEPT
                !.applied = 2,
                !.twice = inject_tracking_into_html(
                            calc.once, CampaignIdStr, RecipientIdStr,
                            TRUE, calc.enable_open_tracking)]
  /\ UNCHANGED << settings, campaign, recipients, unsubscribe_list,
                  suppression_list, passes, now, delivered, email_logs,
                  opened_at, opened_count, limiter >>

NextInject ==
  \/ CallInject
  \/ CallInjectAgain

SpecInject == InitInject /\ [][NextInject]_vars

\* ---- endpoints.py track_email_open -------------------------------------
DigitChars == <<"1","2","3","4","5","6","7","8","9">>

\* the id of the recipient row holding email e
RecipientIdOf(e) == <<"r", DigitChars[e]>>

\* line 1145: the row exists and has no opened_at
is_first_open_unchecked(e) == recipients[e].status # "none"

is_first_open(e) == recipients[e].status # "none" /\ ~opened_at[e]

\* The requests name the campaign and a recipient, with a token issued for
\* one of the campaign's recipients or for a recipient of another campaign.
OpenTokens ==
  {generate_tracking_token(CampaignIdStr, RecipientIdOf(e)) : e \in Emails}
    \cup {generate_tracking_token(<<"c","2">>, RecipientIdOf(1))}

\* 0: every call succeeds; 1: the select raises; 2: the opened_at update
\* raises; 3: the opened_count update raises; 4: the log insert raises.
\* A failure of the webhook delivery follows every write and is 0 here.
OpenFaults == 0..4

\* lines 1119-1185.  The storage calls are synchronous and the only await
\* follows the last write, so the handler is one step; every exception
\* is caught and the pixel is returned.
TrackEmailOpen(e, t, fault) ==
  /\ Idle
  /\ calc.fn \in {"none", "track_email_open"}
  /\ calc' = [fn |-> "track_email_open", recipient |-> e, token |-> t,
              fault |-> fault, result |-> "pixel"]
  /\ UNCHANGED << settings, campaign, recipients, unsubscribe_list,
                  suppression_list, passes, now, delivered, limiter >>
  /\ IF \/ ~verify_tracking_token(CampaignIdStr, RecipientIdOf(e), t)
        \/ fault = 1
        \/ ~is_first_open(e)
        \/ fault = 2
     THEN UNCHANGED << opened_at, opened_count, email_logs >>
     ELSE /\ opened_at' = [opened_at EXCEPT ![e] = TRUE]
          /\ opened_count' = IF fault = 3 THEN opened_count
                             ELSE opened_count + 1
          /\ email_logs' = IF fault \in {3, 4} THEN email_logs
                           ELSE email_logs + 1

OpenUploads == {{e} : e \in Emails} \cup {Emails}

NextOpen ==
  \/ \E rows \in OpenUploads : ImportCsv(rows)
  \/ \E e \in Emails, t \in OpenTokens, fault \in OpenFaults :
        TrackEmailOpen(e, t, fault)

SpecOpen == InitApi /\ [][NextOpen]_vars

\* ---- template_service.py ------------------------------------------------
\* A value of the data mapping is a string, a mapping from names to
\* strings, or absent; Undefined is Jinja's value of a failed lookup.
StrValue(text) == [kind |-> "str", text |-> text, items |-> << >>]

MapValue(items) == [kind |-> "map", text |-> << >>, items |-> items]

Undefined == [kind |-> "undefined", text |-> << >>, items |-> << >>]

\* a mapping is a sequence of (key, value) pairs with distinct keys
HasKey(mapping, key) == \E i \in 1..Len(mapping) : mapping[i][1] = key

ValueAt(mapping, key) ==
  mapping[CHOOSE i \in 1..Len(mapping) : mapping[i][1] = key][2]

IsSpace(c) == c \in {" ", "\n", "\t"}

\* \w or a dot
IsNameChar(c) ==
  \/ c \in UnreservedMarks \ {"-", "~"}
  \/ \E i \in 1..Len(LowerLetters) : LowerLetters[i] = c \/ UpperLetters[i] = c

RECURSIVE Strip(_)
Strip(s) ==
  IF s = << >> THEN s
  ELSE IF IsSpace(Head(s)) THEN Strip(Tail(s))
  ELSE IF IsSpace(s[Len(s)]) THEN Strip(SubSeq(s, 1, Len(s) - 1))
  ELSE s

BraceOpen == <<"{","{">>

BraceClose == <<"}","}">>

\* the pieces of a template from position i on: literal text and the
\* expressions between {{ and }}
RECURSIVE Pieces(_, _)
Pieces(html, i) ==
  IF i > Len(html) THEN << >>
  ELSE
    LET open == IndexOf(html, BraceOpen, i)
        close == IF open = 0 THEN 0 ELSE IndexOf(html, BraceClose, open + 2)
    IN
    IF open = 0 \/ close = 0
    THEN << [kind |-> "data", text |-> SubSeq(html, i, Len(html))] >>
    ELSE (IF open > i
          THEN << [kind |-> "data", text |-> SubSeq(html, i, open - 1)] >>
          ELSE << >>)
         \o << [kind |-> "variable", text |-> SubSeq(html, open + 2, close - 1)] >>
         \o Pieces(html, close + 2)

\* lines 16-25: the names matched by  \{\{(\s*[\w\.]+\s*)\}\} , stripped;
\* the set of the elements of the returned list
extract_variables(html_content) ==
  LET pieces == Pieces(html_content, 1) IN
  { Strip(pieces[k].text) :
      k \in {j \in 1..Len(pieces) :
               /\ pieces[j].kind = "variable"
               /\ Strip(pieces[j].text) # << >>
               /\ \A n \in 1..Len(Strip(pieces[j].text)) :
                     IsNameChar(Strip(pieces[j].text)[n]) } }

\* the names of a dotted expression
RECURSIVE SplitDots(_)
SplitDots(name) ==
  LET dot == IndexOf(name, <<".">>, 1) IN
  IF dot = 0 THEN << name >>
  ELSE << SubSeq(name, 1, dot - 1) >> \o SplitDots(SubSeq(name, dot + 1, Len(name)))

\* Jinja's Environment.getattr with the default Undefined: an attribute of
\* an undefined value raises UndefinedError, a missing attribute or item
\* is undefined
RECURSIVE Resolve(_, _, _)
Resolve(value, names, k) ==
  IF k > Len(names) THEN [raised |-> FALSE, value |-> value]
  ELSE IF value.kind = "undefined" THEN [raised |-> TRUE, value |-> Undefined]
  ELSE IF value.kind = "map" /\ HasKey(value.items, names[k])
  THEN Resolve(ValueAt(value.items, names[k]), names, k + 1)
  ELSE Resolve(Undefined, names, k + 1)

Evaluate(expression, context) ==
  LET names == SplitDots(Strip(expression))
      root == IF HasKey(context, names[1]) THEN ValueAt(context, names[1])
              ELSE Undefined
  IN Resolve(root, names, 2)

\* Template.render of a template of text and {{ dotted.name }} expressions
\* (Environment defaults: Undefined prints as the empty string, no
\* autoescape, keep_trailing_newline = False strips one final newline of
\* the source)
JinjaSource(html) ==
  IF html # << >> /\ html[Len(html)] = "\n"
  THEN SubSeq(html, 1, Len(html) - 1)
  ELSE html

JinjaRender(html, context) ==
  LET pieces == Pieces(JinjaSource(html), 1)
      outcome(k) == Evaluate(pieces[k].text, context)
      variables == {k \in 1..Len(pieces) : pieces[k].kind = "variable"}
  IN
  IF \E k \in variables : outcome(k).raised
  THEN [raised |-> TRUE, rendered |-> << >>]
  ELSE [raised |-> FALSE,
        rendered |-> Flatten([k \in 1..Len(pieces) |->
                       IF pieces[k].kind = "data" THEN pieces[k].text
                       ELSE outcome(k).value.text])]

\* the elements of a set as a sequence
RECURSIVE SeqOf(_)
SeqOf(set) ==
  IF set = {} THEN << >>
  ELSE LET x == CHOOSE y \in set : TRUE IN << x >> \o SeqOf(set \ {x})

\* lines 27-60: missing variables get the empty string, then the template
\* is rendered; every exception leaves render as a ValueError
render(html_content, data) ==
  LET required_vars == extract_variables(html_content)
      missing_vars == {var \in required_vars : ~HasKey(data, var)}
      defaults == SeqOf(missing_vars)
      context == data \o [k \in 1..Len(defaults) |-> << defaults[k], StrValue(<< >>) >>]
  IN JinjaRender(html_content, context)

\* ---- calls of render ----------------------------------------------------
\* Templates of one to MaxParts parts: text (one part is a line end) and
\* placeholders for a plain and a dotted identifier, with and without
\* blanks inside the braces.
NameX == <<"x">>

NameUser == <<"u","s","e","r">>

NameName == <<"n","a","m","e">>

NameUserName == NameUser \o <<".">> \o NameName

TemplateParts ==
  { [kind |-> "text", text |-> <<"H","i"," ">>],
    [kind |-> "text", text |-> <<"!">>],
    [kind |-> "text", text |-> <<"\n">>],
    [kind |-> "placeholder", text |-> NameX],
    [kind |-> "placeholder", text |-> <<" ">> \o NameX \o <<" ">>],
    [kind |-> "placeholder", text |-> NameUserName] }

Templates == UNION {[1..n -> TemplateParts] : n \in 1..MaxParts}

PartText(part) ==
  IF part.kind = "text" THEN part.text
  ELSE BraceOpen \o part.text \o BraceClose

TemplateText(parts) == Flatten([k \in 1..Len(parts) |-> PartText(parts[k])])

DataMappings ==
  { << >>,
    << <<NameX, StrValue(<<"A","l">>)>> >>,
    << <<NameUser, MapValue(<< <<NameName, StrValue(<<"B","o">>)>> >>)>> >>,
    << <<NameUser, MapValue(<< >>)>> >>,
    << <<NameUser, StrValue(<<"D","i">>)>> >>,
    << <<NameUserName, StrValue(<<"C","y">>)>> >>,
    << <<NameX, StrValue(<<"A","l">>)>>,
       <<NameUser, MapValue(<< <<NameName, StrValue(<<"B","o">>)>> >>)>> >> }

RenderCalls ==
  [fn : {"render"}, parts : Templates, data : DataMappings,
   returned : {FALSE}, raised : {FALSE}, result : {<< >>}]

InitRender ==
  /\ InitSystem
  /\ settings.email_batch_size = MaxBatchSize
  /\ ~campaign.webhooks
  /\ calc \in RenderCalls

CallRender ==
  /\ calc.fn = "render"
  /\ ~calc.returned
  /\ LET out == render(TemplateText(calc.parts), calc.data) IN
     calc' = [calc EXCEPT !.returned = TRUE, !.raised = out.raised,
                          !.result = out.rendered]
  /\ UNCHANGED << settings, campaign, recipients, unsubscribe_list,
                  suppression_list, passes, now, delivered, email_logs,
                  opened_at, opened_count, limiter >>

NextRender == CallRender

SpecRender == InitRender /\ [][NextRender]_vars

\* ---- rate_limiter.py check_rate_limit -----------------------------------
\* lines 51-54
cleanup_old_requests_keep_all(requests, window_seconds) == requests

cleanup_old_requests(requests, window_seconds) ==
  LET cutoff == now - window_seconds
      ts_kept(ts) == ts > cutoff
  IN SelectSeq(requests, ts_kept)

\* lines 56-62: the answer; an expired entry is deleted
is_blocked(l, identifier) ==
  l.blocked_ips[identifier] # NoTime /\ now < l.blocked_ips[identifier]

\* lines 64-67
block(l, identifier, duration_seconds) ==
  [l EXCEPT !.blocked_ips[identifier] = now + duration_seconds]

\* lines 69-74
record_abuse(l, identifier, points) ==
  IF l.abuse_scores[identifier] + points >= AbuseThreshold
  THEN [block(l, identifier, AbuseBlockSeconds) EXCEPT
          !.abuse_scores[identifier] = 0]
  ELSE [l EXCEPT !.abuse_scores[identifier] = @ + points]

\* lines 76-97: the limiter after the call and the returned pair
check_rate_limit(l, identifier, max_requests, window_seconds) ==
  IF is_blocked(l, identifier)
  THEN [limiter |-> l, allowed |-> FALSE, remaining |-> 0]
  ELSE
    LET unblocked == [l EXCEPT !.blocked_ips[identifier] = NoTime]
        kept == cleanup_old_requests(l.requests[identifier], window_seconds)
        cleaned == [unblocked EXCEPT !.requests[identifier] = kept]
        current_count == Len(kept)
    IN
    IF current_count >= max_requests
    THEN [limiter |-> record_abuse(cleaned, identifier, 1),
          allowed |-> FALSE, remaining |-> 0]
    ELSE [limiter |-> [cleaned EXCEPT
                         !.requests[identifier] = Append(kept, now),
                         !.allowed[identifier][now] = @ + 1],
          allowed |-> TRUE,
          remaining |-> max_requests - current_count - 1]

\* lines 241-252: a request of the client for the path
CheckRateLimit(identifier) ==
  /\ calc.fn \in {"none", "check_rate_limit"}
  /\ LET config == get_rate_limit_config(identifier)
         out == check_rate_limit(limiter, identifier, config.max_requests,
                                 config.window_seconds)
     IN /\ limiter' = out.limiter
        /\ calc' = [fn |-> "check_rate_limit", identifier |-> identifier,
                    allowed |-> out.allowed, remaining |-> out.remaining]
  /\ UNCHANGED << settings, campaign, recipients, unsubscribe_list,
                  suppression_list, passes, now, delivered, email_logs,
                  opened_at, opened_count >>

\* lines 64-67: an identifier is blocked for a duration
Block(identifier, duration_seconds) ==
  /\ calc.fn \in {"none", "check_rate_limit"}
  /\ limiter' = block(limiter, identifier, duration_seconds)
  /\ UNCHANGED << settings, campaign, recipients, unsubscribe_list,
                  suppression_list, passes, now, delivered, email_logs,
                  opened_at, opened_count, calc >>

NextLimiter ==
  \/ \E id \in LimiterIds : CheckRateLimit(id)
  \/ \E id \in LimiterIds, d \in 1..MaxTime : Block(id, d)
  \/ AdvanceTime

InitLimiter == InitApi /\ ~campaign.webhooks

SpecLimiter == InitLimiter /\ [][NextLimiter]_vars

\* ---- segmentation.py add_tags_to_recipients ------------------------------
\* lines 339-362 for one recipient: the stored metadata is read, the tags
\* are added and the metadata is written back, without suspending
AddTags(email) ==
  /\ Idle
  /\ recipients[email].status # "none"
  /\ recipients' = [recipients EXCEPT ![email].tags = TRUE]
  /\ UNCHANGED << settings, campaign, unsubscribe_list, suppression_list,
                  passes, now, delivered, email_logs, opened_at,
                  opened_count, limiter, calc >>

\* One normal pass over the whole list with every provider answer, while
\* tags are added to recipients.
NextMetadata ==
  \/ ImportCsv(Emails)
  \/ SendCampaign(FALSE, {})
  \/ \E p \in Passes : PassLoad(p, {})
  \/ \E p \in Passes, result \in ProviderResults : PassSendOne(p, result, FALSE)
  \/ \E p \in Passes : PassFinish(p, 0)
  \/ \E email \in Emails : AddTags(email)

InitMetadata == InitApi /\ ~campaign.webhooks

SpecMetadata == InitMetadata /\ [][NextMetadata]_vars

----------------------------------------------------------------------------
\* Vocabulary of the properties

\* pass p hands one message to the provider in this step
ProviderCall(p) ==
  /\ p <= Len(passes)
  /\ passes[p].pc = "sending"
  /\ passes'[p] # passes[p]

\* the address pass p hands to the provider in a ProviderCall(p) step
CalledEmail(p) == passes[p].messages[Len(passes[p].results) + 1].email

\* pass p records its results and writes the terminal update in this step
Completes(p) ==
  /\ p <= Len(passes)
  /\ passes[p].pc = "recording"
  /\ passes'[p].exit = "completed"

\* pass p returns in this step
Returns(p) ==
  /\ p <= Len(passes)
  /\ passes[p].pc # "done"
  /\ passes'[p].pc = "done"

Succeeded(ps) == {k \in 1..Len(ps.results) : ps.results[k].success}

Unsuccessful(ps) == {k \in 1..Len(ps.results) : ~ps.results[k].success}

StartSendAllowed(c) ==
  /\ c.status \in {"draft", "scheduled", "paused"}
  /\ c.total_recipients > 0

----------------------------------------------------------------------------
\* C1: under any interleaving of normal-mode start_send, pause, resume
\* and passes, no recipient receives more than one successful delivery
\* call.
C1_IdempotentSends == \A e \in Emails : delivered[e] <= 1

\* C2: when a normal-mode pass completes, the stored sent_count is the
\* number of recipients whose delivery succeeded in the pass and the
\* stored failed_count the number that became terminally failed; requeued
\* recipients are counted in neither.
C2_PassCounters ==
  [][\A p \in Passes :
       (Completes(p) /\ ~passes[p].test_mode)
         => /\ campaign'.sent_count = Cardinality(Succeeded(passes[p]))
            /\ campaign'.failed_count =
                 Cardinality({k \in Unsuccessful(passes[p]) :
                    recipients'[passes[p].messages[k].email].status = "failed"})]_vars

\* C3: a normal-mode pass that attempts all of its N pending recipients
\* and requeues none of them raises sent_count + failed_count by exactly N.
C3_CounterConservation ==
  [][\A p \in Passes :
       ( /\ Completes(p)
         /\ ~passes[p].test_mode
         /\ Len(passes[p].messages) = passes[p].n_targets
         /\ \A k \in Unsuccessful(passes[p]) :
               recipients'[passes[p].messages[k].email].status = "failed" )
         => (campaign'.sent_count - passes[p].sent_before)
              + (campaign'.failed_count - passes[p].failed_before)
              = passes[p].n_targets]_vars

\* C4: while the campaign is sending or paused,
\* sent_count + failed_count <= total_recipients.
C4_CountersWithinTotal ==
  campaign.status \in {"sending", "paused"}
    => campaign.sent_count + campaign.failed_count <= campaign.total_recipients

\* C5: no step decreases the campaign's sent_count or failed_count.
C5_CountersMonotone ==
  [][ /\ campaign'.sent_count >= campaign.sent_count
      /\ campaign'.failed_count >= campaign.failed_count ]_vars

\* C6: once the campaign is completed or failed, no step changes its
\* status, sent_count or failed_count.
C6_TerminalStatus ==
  [][campaign.status \in {"completed", "failed"}
       => /\ campaign'.status = campaign.status
          /\ campaign'.sent_count = campaign.sent_count
          /\ campaign'.failed_count = campaign.failed_count]_vars

\* C7: start_send answers 4xx and changes nothing unless the campaign is
\* draft, scheduled or paused with total_recipients > 0; an accepted
\* start_send sets the status to sending in the step that queues the pass,
\* before the pass has run.
C7_StartSendGuard ==
  /\ [](~StartSendAllowed(campaign) => send_campaign_code(campaign) \in 400..499)
  /\ [](StartSendAllowed(campaign) => send_campaign_code(campaign) = 202)
  /\ [][(\E req \in ApiRequests : SendCampaign(req.test_mode, req.test_emails))
          => IF StartSendAllowed(campaign)
             THEN /\ campaign'.status = "sending"
                  /\ Len(passes') = Len(passes) + 1
                  /\ SubSeq(passes', 1, Len(passes)) = passes
                  /\ passes'[Len(passes')].pc = "queued"
                  /\ recipients' = recipients
             ELSE UNCHANGED <<campaign, recipients, passes>>]_vars

\* C7 witness: an accepted test-mode start_send has set the status to
\* sending and its pass has not started.
C7_Witness ==
  /\ campaign.status = "sending"
  /\ \E p \in 1..Len(passes) : passes[p].pc = "queued" /\ passes[p].test_mode

\* C8: no provider call is made for an address that is unsubscribed or
\* suppressed at the time of the call.
C8_NoSendToSuppressed ==
  [][\A p \in Passes : ProviderCall(p) => ~Suppressed(CalledEmail(p))]_vars

\* C9: a recipient in status sent never moves to pending, sending or
\* failed, and a recipient moves back to pending only from failed.
C9_SentIsFinal ==
  [][\A e \in Emails :
       /\ recipients[e].status = "sent"
            => recipients'[e].status \notin {"pending", "sending", "failed"}
       /\ (recipients'[e].status = "pending"
             /\ recipients[e].status \notin {"none", "pending"})
            => recipients[e].status = "failed"]_vars

Loads(p) ==
  /\ p <= Len(passes)
  /\ passes[p].pc = "queued"
  /\ passes'[p].pc # "queued"

\* the addresses of the messages pass p has prepared
MessageEmails(ps) == {ps.messages[k].email : k \in 1..Len(ps.messages)}

C12_TargetSelection ==
  [][\A p \in Passes :
       Loads(p)
         => IF passes[p].test_mode
            THEN MessageEmails(passes'[p]) \subseteq passes[p].test_emails
            ELSE /\ MessageEmails(passes'[p]) \subseteq
                      {e \in Emails : recipients[e].status = "pending"}
                 /\ passes'[p].n_targets =
                      Cardinality({e \in Emails : recipients[e].status = "pending"})]_vars

ScheduleAllowed(c, scheduled_at) ==
  /\ c.status \in {"draft", "paused"}
  /\ c.total_recipients > 0
  /\ scheduled_at > now

\* C13: pause succeeds, setting the status to paused and nothing else,
\* only when the status is sending; in every other status it answers 400
\* and changes nothing.
C13_PauseGuard ==
  /\ [](pause_campaign_code(campaign) =
          IF campaign.status = "sending" THEN 200 ELSE 400)
  /\ [][PauseCampaign
          => IF campaign.status = "sending"
             THEN /\ campaign' = [campaign EXCEPT !.status = "paused"]
                  /\ UNCHANGED << recipients, passes, email_logs >>
             ELSE UNCHANGED vars]_vars

\* C13 witness: a pause request has been accepted while a pass of the
\* campaign is still running.
C13_Witness ==
  /\ campaign.status = "paused"
  /\ \E p \in 1..Len(passes) : passes[p].pc # "done"

\* C14: schedule is accepted only when the status is draft or paused,
\* total_recipients > 0 and the requested time is strictly in the future;
\* it then sets status = scheduled and scheduled_at to that time.  Every
\* other request is answered 4xx and leaves the campaign unchanged.
C14_ScheduleGuard ==
  /\ [](\A scheduled_at \in Times :
          IF ScheduleAllowed(campaign, scheduled_at)
          THEN schedule_campaign_code(campaign, scheduled_at) = 200
          ELSE schedule_campaign_code(campaign, scheduled_at) \in 400..499)
  /\ [][\A scheduled_at \in Times :
          ScheduleCampaign(scheduled_at)
            => IF ScheduleAllowed(campaign, scheduled_at)
               THEN /\ campaign' = [campaign EXCEPT
                                      !.status = "scheduled",
                                      !.scheduled_at = scheduled_at]
                    /\ UNCHANGED << recipients, passes, email_logs >>
               ELSE UNCHANGED vars]_vars

\* C14 witness: a paused campaign has been scheduled for a later time.
C14_Witness ==
  /\ campaign.status = "scheduled"
  /\ campaign.scheduled_at > now
  /\ Len(passes) > 0

\* a call of should_retry_email has returned
RetryReturned == calc.fn = "should_retry_email" /\ calc.returned

\* the permanent-failure keywords the claim lists
ClaimedPermanentKeywords ==
  { <<"i","n","v","a","l","i","d"," ","e","m","a","i","l">>,
    <<"d","o","m","a","i","n"," ","n","o","t"," ","f","o","u","n","d">>,
    <<"u","s","e","r"," ","n","o","t"," ","f","o","u","n","d">>,
    <<"m","a","i","l","b","o","x"," ","n","o","t"," ","f","o","u","n","d">>,
    <<"a","d","d","r","e","s","s"," ","r","e","j","e","c","t","e","d">>,
    <<"d","o","e","s"," ","n","o","t"," ","e","x","i","s","t">>,
    <<"u","n","d","e","l","i","v","e","r","a","b","l","e">>,
    <<"p","e","r","m","a","n","e","n","t"," ","f","a","i","l","u","r","e">> }

\* the same with the keyword "email address is invalid"
AmendedPermanentKeywords ==
  ClaimedPermanentKeywords \cup
    { <<"e","m","a","i","l"," ","a","d","d","r","e","s","s"," ","i","s"," ","i","n","v","a","l","i","d">> }

HasKeyword(msg, keywords) == \E kw \in keywords : Contains(Lower(msg), kw)

\* C15 as stated: should_retry_email returns false if and only if
\* retry_count >= max_retries or the lower-cased message contains one of
\* the listed permanent-failure keywords.
C15_Original ==
  RetryReturned
    => (calc.result = FALSE
          <=> (calc.retry_count >= calc.max_retries
                 \/ HasKeyword(calc.error_message, ClaimedPermanentKeywords)))

\* C15 amended: should_retry_email returns false if and only if
\* retry_count >= max_retries or the lower-cased message contains one of
\* the listed permanent-failure keywords or "email address is invalid";
\* so it is false for every message at the ceiling and true below the
\* ceiling for every message with no keyword of either vocabulary.
C15_RetryClassifier ==
  RetryReturned
    => /\ calc.result = FALSE
            <=> (calc.retry_count >= calc.max_retries
                   \/ HasKeyword(calc.error_message, AmendedPermanentKeywords))
       /\ calc.retry_count = calc.max_retries => calc.result = FALSE
       /\ ( /\ calc.retry_count < calc.max_retries
            /\ ~HasKeyword(calc.error_message, AmendedPermanentKeywords)
            /\ ~HasKeyword(calc.error_message, TemporaryWords) )
            => calc.result = TRUE

\* C15 witness: below the ceiling the classifier has refused a capitalised
\* message that has a permanent and a temporary keyword.
C15_Witness ==
  /\ RetryReturned
  /\ calc.retry_count < calc.max_retries
  /\ calc.error_message # Lower(calc.error_message)
  /\ HasKeyword(calc.error_message, AmendedPermanentKeywords)
  /\ HasKeyword(calc.error_message, TemporaryWords)
  /\ calc.result = FALSE

\* C16 as stated: below the ceiling should_retry_email returns true for
\* every message that contains a transient keyword, whatever else the
\* message contains.
C16_Original ==
  ( /\ RetryReturned
    /\ calc.retry_count < calc.max_retries
    /\ HasKeyword(calc.error_message, TemporaryWords) )
    => calc.result = TRUE

\* C16 amended: below the ceiling should_retry_email returns true for
\* every message that contains a transient keyword and no
\* permanent-failure keyword.
C16_TransientRetried ==
  ( /\ RetryReturned
    /\ calc.retry_count < calc.max_retries
    /\ HasKeyword(calc.error_message, TemporaryWords)
    /\ ~HasKeyword(calc.error_message, AmendedPermanentKeywords) )
    => calc.result = TRUE

\* C16 witness: below the ceiling the classifier has accepted a message
\* made of a text with no keyword and a transient keyword.
C16_Witness ==
  /\ RetryReturned
  /\ calc.retry_count < calc.max_retries
  /\ HasKeyword(calc.error_message, TemporaryWords)
  /\ \E n \in NeutralWords : Contains(Lower(calc.error_message), n)
  /\ calc.result = TRUE

\* The URLs of the href attributes of a document, in order of appearance.
RECURSIVE href_values(_, _)
href_values(html, i) ==
  IF i > Len(html) THEN << >>
  ELSE
    LET quotes == {j \in (i + 6)..Len(html) : IsQuote(html[j])}
        close == IF quotes = {} THEN 0
                 ELSE CHOOSE j \in quotes : \A k \in quotes : j <= k
    IN
    IF /\ i + 5 <= Len(html)
       /\ SubSeq(html, i, i + 4) = HrefEq
       /\ IsQuote(html[i + 5])
       /\ close > i + 6
    THEN << SubSeq(html, i + 6, close - 1) >> \o href_values(html, close + 1)
    ELSE href_values(html, i + 1)

LeftUnchanged(url) ==
  \/ \E prefix \in SkipPrefixes : StartsWith(url, prefix)
  \/ Contains(Lower(url), <<"u","n","s","u","b","s","c","r","i","b","e">>)
  \/ Contains(url, <<"t","r","a","c","k","/","c","l","i","c","k">>)

InjectedOnce == calc.fn = "inject_tracking_into_html" /\ calc.applied >= 1

InjectedTwice == calc.fn = "inject_tracking_into_html" /\ calc.applied = 2

\* C17: after click-tracking injection the document's href URLs are, link
\* by link, the original URL when it starts with mailto:, tel:,
\* javascript: or #, or contains unsubscribe or the tracking path, and
\* otherwise the tracking-redirect URL carrying the campaign id, the
\* recipient id, the token and the original URL.
C17_ClickInjection ==
  InjectedOnce
    => href_values(calc.once, 1) =
         [k \in 1..Len(calc.links) |->
            IF LeftUnchanged(calc.links[k].url)
            THEN calc.links[k].url
            ELSE wrap_url_for_tracking(calc.links[k].url, CampaignIdStr,
                                       RecipientIdStr)]

\* C18: with click tracking enabled and open tracking disabled, injecting
\* into the injector's own output gives that output back.
C18_InjectionIdempotent ==
  (InjectedTwice /\ ~calc.enable_open_tracking) => calc.twice = calc.once

NotYetOpened(e) == recipients[e].status # "none" /\ ~opened_at[e]

StorageWorks(fault) == fault = 0

\* the step is the handling of the request recorded in calc'
OpenRequest ==
  /\ calc'.fn = "track_email_open"
  /\ TrackEmailOpen(calc'.recipient, calc'.token, calc'.fault)

\* C19: every /track/open request returns the pixel.  A request whose
\* token is generate_tracking_token(campaign, recipient), for a recipient
\* with no opened_at, sets opened_at, adds exactly 1 to opened_count and
\* logs one event when its storage calls succeed; a request with any other
\* token, or for a recipient already opened, changes no stored state.  No
\* recipient is counted more than once.
C19_OpenCountedOnce ==
  [][OpenRequest
       => LET e == calc'.recipient IN
          /\ calc'.result = "pixel"
          /\ opened_count' <= Cardinality({x \in Emails : opened_at'[x]})
          /\ IF calc'.token =
                  generate_tracking_token(CampaignIdStr, RecipientIdOf(e))
                /\ NotYetOpened(e)
             THEN StorageWorks(calc'.fault)
                    => /\ opened_at' = [opened_at EXCEPT ![e] = TRUE]
                       /\ opened_count' = opened_count + 1
                       /\ email_logs' = email_logs + 1
             ELSE UNCHANGED << opened_at, opened_count, email_logs,
                               recipients, campaign >>]_vars

\* a counted open followed by a second request for the same pixel
C19_Witness ==
  /\ calc.fn = "track_email_open"
  /\ calc.fault = 0
  /\ calc.token =
       generate_tracking_token(CampaignIdStr, RecipientIdOf(calc.recipient))
  /\ opened_at[calc.recipient]
  /\ opened_count = 1
  /\ email_logs = 1
  /\ Cardinality({x \in Emails : opened_at[x]}) = 1

\* the value a placeholder stands for in a data mapping: the value of the
\* key, for a dotted identifier the value reached name by name
PlaceholderText(name, data) ==
  LET names == SplitDots(Strip(name))
      root == IF HasKey(data, names[1]) THEN ValueAt(data, names[1])
              ELSE Undefined
      inner == IF Len(names) = 2 /\ root.kind = "map" /\ HasKey(root.items, names[2])
               THEN ValueAt(root.items, names[2]) ELSE Undefined
      value == IF Len(names) = 1 THEN root ELSE inner
  IN IF value.kind = "str" THEN value.text ELSE << >>

RenderExpected(parts, data) ==
  Flatten([k \in 1..Len(parts) |->
             IF parts[k].kind = "text" THEN parts[k].text
             ELSE PlaceholderText(parts[k].text, data)])

\* C20: render returns, without raising, the template with each
\* placeholder replaced by the string of its value, or by the empty
\* string when the key is absent, and every other character kept.
C20_RenderTotal ==
  (calc.fn = "render" /\ calc.returned)
    => /\ ~calc.raised
       /\ calc.result = RenderExpected(calc.parts, calc.data)

\* C20, first half only: render does not raise
C20_RenderNeverRaises ==
  (calc.fn = "render" /\ calc.returned) => ~calc.raised

\* the step is the rate-limit check recorded in calc'
LimiterRequest ==
  /\ calc'.fn = "check_rate_limit"
  /\ CheckRateLimit(calc'.identifier)

\* allowed requests of the identifier inside the last window_seconds
RecentAllowed(identifier, window_seconds) ==
  LET inside == {t \in Times : t > now - window_seconds /\ t <= now}
      RECURSIVE Sum(_)
      Sum(S) == IF S = {} THEN 0
                ELSE LET t == CHOOSE x \in S : TRUE
                     IN limiter.allowed[identifier][t] + Sum(S \ {t})
  IN Sum(inside)

\* C21: a check for an identifier that is not blocked is allowed exactly
\* when fewer than max_requests allowed requests of the identifier lie
\* inside the last window_seconds, and then returns (True, max_requests -
\* count - 1); otherwise it returns (False, 0) and records nothing in the
\* window.  A blocked identifier is denied with (False, 0) until the block
\* expires.
C21_RateLimit ==
  [][LimiterRequest
       => LET id == calc'.identifier
              config == get_rate_limit_config(id)
              count == RecentAllowed(id, config.window_seconds)
              blocked == /\ limiter.blocked_ips[id] # NoTime
                         /\ now < limiter.blocked_ips[id]
          IN
          IF ~blocked /\ count < config.max_requests
          THEN /\ calc'.allowed
               /\ calc'.remaining = config.max_requests - count - 1
               /\ limiter'.allowed[id] =
                    [limiter.allowed[id] EXCEPT ![now] = @ + 1]
          ELSE /\ ~calc'.allowed
               /\ calc'.remaining = 0
               /\ limiter'.allowed = limiter.allowed
               /\ Cardinality({k \in 1..Len(limiter'.requests[id]) :
                                  limiter'.requests[id][k] = now})
                    = Cardinality({k \in 1..Len(limiter.requests[id]) :
                                     limiter.requests[id][k] = now})
               /\ blocked => limiter' = limiter]_vars

\* an identifier is allowed again after its earlier request left the window
C21_Witness ==
  /\ calc.fn = "check_rate_limit"
  /\ calc.allowed
  /\ calc.remaining = 0
  /\ \E t \in Times : t < now /\ limiter.allowed[calc.identifier][t] > 0
  /\ limiter.requests[calc.identifier] = << now >>

\* C22: when a pass records a failed delivery for a recipient whose
\* retry_count before the attempt is r, the recipient becomes pending
\* exactly when should_retry_email(error, r, max_retries) is true and
\* failed otherwise.
C22_RequeueDecision ==
  [][\A p \in Passes :
       Completes(p)
         => \A k \in Unsuccessful(passes[p]) :
              LET e == passes[p].messages[k].email
                  r == passes[p].messages[k].retry_count
                  retry == RetryDecision[passes[p].results[k].error][r]
                                        [settings.email_max_retry_attempts]
              IN recipients'[e].status = IF retry THEN "pending" ELSE "failed"]_vars

\* pass p requeues the recipient of its k-th message in this step
Requeues(p, k) ==
  /\ Completes(p)
  /\ k \in Unsuccessful(passes[p])
  /\ recipients'[passes[p].messages[k].email].status = "pending"

\* C23, the counter, the message and the hint: a requeue adds exactly 1 to
\* the stored retry_count, records the new count as the attempt number and
\* stores a hint 2^(retry_count - 1) minutes after the clock.
C23_RetryCountAndHint ==
  [][\A p \in Passes, k \in 1..MaxRecipients :
       Requeues(p, k)
         => LET e == passes[p].messages[k].email IN
            /\ recipients'[e].retry_count = recipients[e].retry_count + 1
            /\ recipients'[e].error_attempt = recipients'[e].retry_count
            /\ recipients'[e].retry_backoff =
                 2 ^ (recipients'[e].retry_count - 1)]_vars

\* C23: on a requeue the retry_count rises by exactly 1, the error_message
\* records the attempt number, the stored hint is the clock plus
\* 2^(retry_count - 1) minutes for the new retry_count, and the other
\* metadata keys of the recipient are kept.
C23_RetryUpdate ==
  [][\A p \in Passes, k \in 1..MaxRecipients :
       Requeues(p, k)
         => LET e == passes[p].messages[k].email IN
            /\ recipients'[e].retry_count = recipients[e].retry_count + 1
            /\ recipients'[e].error_attempt = recipients'[e].retry_count
            /\ recipients'[e].retry_backoff =
                 2 ^ (recipients'[e].retry_count - 1)
            /\ recipients'[e].tags = recipients[e].tags]_vars

\* C24: a recipient whose template rendering fails gets a failed event
\* logged and no message, the pass goes on with the other recipients, and
\* the recipient ends the pass with status failed.
C24_RenderFailure ==
  [][\A p \in Passes :
       /\ Loads(p) /\ passes'[p].skipped # {}
            => /\ email_logs' = email_logs + Cardinality(passes'[p].skipped)
               /\ MessageEmails(passes'[p]) \cap passes'[p].skipped = {}
               /\ Cardinality(MessageEmails(passes'[p]))
                    = passes'[p].n_targets - Cardinality(passes'[p].skipped)
       /\ Returns(p)
            => \A e \in passes[p].skipped :
                 recipients'[e].status = "failed"]_vars

\* pass p has the outcome of its k-th provider call stored on the recipient
\* row after this step
OutcomeRecorded(p, k) ==
  LET m == passes[p].messages[k]
      row == recipients'[m.email]
  IN IF passes[p].results[k].success
     THEN row.status = "sent"
     ELSE /\ row.status \in {"failed", "pending"}
          /\ row.retry_count = m.retry_count + 1

\* send_batch returns to pass p in this step
BatchReturns(p) ==
  /\ p <= Len(passes)
  /\ passes[p].pc \in {"queued", "sending"}
  /\ passes'[p].pc = "recording"

\* C25, send_batch alone: each provider call is for the next message of the
\* list, whatever the earlier answers were, and when send_batch returns
\* there is one result per message.
C25_OneResultPerMessage ==
  [][\A p \in Passes :
       /\ ProviderCall(p)
            => /\ Len(passes[p].results) < Len(passes[p].messages)
               /\ Len(passes'[p].results) \in {0, Len(passes[p].results) + 1}
       /\ BatchReturns(p)
            => Len(passes'[p].results) = Len(passes'[p].messages)]_vars

\* C25: send_batch makes one provider call per message in list order and
\* returns one result per message, and when the pass returns every
\* recipient whose message was handed to the gateway has its outcome
\* recorded (sent, failed, or pending for retry).
C25_BatchNeverAborted ==
  [][\A p \in Passes :
       /\ ProviderCall(p)
            => /\ Len(passes[p].results) < Len(passes[p].messages)
               /\ Len(passes'[p].results) \in {0, Len(passes[p].results) + 1}
       /\ BatchReturns(p)
            => Len(passes'[p].results) = Len(passes'[p].messages)
       /\ Returns(p)
            => \A k \in 1..Len(passes[p].results) : OutcomeRecorded(p, k)]_vars

\* C26: once paused, the campaign's status stays paused until a start_send
\* sets it to sending or a schedule sets it to scheduled; a pass still in
\* flight goes on delivering and leaves the status alone when it finishes.
C26_PausedStays ==
  [][campaign.status = "paused"
       => /\ campaign'.status \in {"paused", "sending", "scheduled"}
          /\ \A p \in Passes :
               Returns(p) => campaign'.status = "paused"]_vars

\* the passes that have been queued and have not returned
InFlight == {p \in 1..Len(passes) : passes[p].pc # "done"}

\* C27: start_send checks the status only: while the campaign is paused
\* with recipients it is accepted and queues a further pass although an
\* earlier pass is still in flight, so two passes run at the same time.
C27_NoMutualExclusion ==
  (/\ campaign.status = "paused"
   /\ campaign.total_recipients > 0
   /\ InFlight # {}
   /\ Idle
   /\ Len(passes) < MaxPasses)
    => ENABLED (/\ SendCampaign(FALSE, {})
                /\ campaign'.status = "sending"
                /\ Len(passes') = Len(passes) + 1)

\* C27 witness: two passes of the campaign have both loaded their targets
\* and are between provider calls.
C27_Witness ==
  \E p, q \in 1..Len(passes) :
    /\ p # q
    /\ passes[p].pc = "sending"
    /\ passes[q].pc = "sending"
    /\ MessageEmails(passes[p]) \cap MessageEmails(passes[q]) # {}

\* the campaign is scheduled and its time has come
Due(c) == c.status = "scheduled" /\ c.scheduled_at # NoTime /\ c.scheduled_at <= now

\* C28: a scheduler tick acts only on a campaign that is scheduled with
\* scheduled_at <= now: with recipients it sets sending and started_at and
\* launches exactly one normal-mode pass, without recipients it sets failed
\* and launches none; it leaves the campaign unscheduled, and the status
\* becomes scheduled only by an accepted schedule request, so one schedule
\* is started at most once and a cancelled one never.
C28_SchedulerTick ==
  /\ [][CheckScheduledCampaigns
          => /\ Due(campaign)
             /\ IF campaign.total_recipients > 0
                THEN /\ campaign' = [campaign EXCEPT !.status = "sending",
                                                     !.started_at = now]
                     /\ Len(passes') = Len(passes) + 1
                     /\ SubSeq(passes', 1, Len(passes)) = passes
                     /\ passes'[Len(passes')] = NewPass(FALSE, {})
                ELSE /\ campaign' = [campaign EXCEPT !.status = "failed"]
                     /\ passes' = passes
             /\ recipients' = recipients
             /\ ~Due(campaign')]_vars
  /\ [][CancelScheduledCampaign
          => /\ campaign'.status = "draft"
             /\ campaign'.scheduled_at = NoTime
             /\ passes' = passes
             /\ ~Due(campaign')]_vars
  /\ [](~Due(campaign) => ~ENABLED CheckScheduledCampaigns)

\* C28 witness: the tick has started a due campaign: its pass is queued,
\* the campaign is sending with started_at at the scheduled time or later.
C28_Witness ==
  /\ campaign.status = "sending"
  /\ campaign.scheduled_at # NoTime
  /\ campaign.started_at >= campaign.scheduled_at
  /\ campaign.started_at > 0
  /\ Len(passes) = 1
  /\ passes[1].pc = "queued"

\* a further pass can be started for campaign c: a start_send would be
\* accepted, or a schedule request for a later time would be
CanStartPass(c) ==
  \/ send_campaign_code(c) = 202
  \/ \E scheduled_at \in (now + 1)..(MaxTime + 1) :
       schedule_campaign_code(c, scheduled_at) = 200

\* C29: the pass that requeues a recipient for retry leaves the campaign in
\* a state from which a further pass can be started, so that a later pass
\* attempts the recipient again.
C29_RequeuedIsRetried ==
  [][\A p \in Passes, k \in 1..MaxRecipients :
       Requeues(p, k) => CanStartPass(campaign')]_vars

\* C30: a recipient's retry_count never exceeds email_max_retry_attempts,
\* and no provider call is made for a recipient whose status is failed,
\* whatever normal-mode and test-mode passes run.
C30_RetryBound ==
  /\ [](\A e \in Emails :
          recipients[e].retry_count <= settings.email_max_retry_attempts)
  /\ [][\A p \in Passes :
          ProviderCall(p) => recipients[CalledEmail(p)].status # "failed"]_vars

====
